---- MODULE Spec2Model ----
(***************************************************************************)
(* Model of cp2kparser.parser: the conversion of a CP2K input file into a  *)
(* nested dictionary (read_input and the functions it calls).              *)
(*                                                                         *)
(* A Python str is a sequence of one-character strings.  A value of the    *)
(* result is a one-field record whose field name is its Python type:       *)
(*   [int |-> n]  [float |-> <<m, e>>]  [str |-> s]                        *)
(*   [dict |-> f] (f maps keys, which are strs, to values)                 *)
(*   [list |-> q] (q is a sequence of values)                              *)
(* A float is kept as the decimal m * 10^e with m not divisible by ten.    *)
(***************************************************************************)
EXTENDS Integers, Sequences, FiniteSets, TLC

VARIABLES
    input_list,   \* read_input: the sanitized lines of the file
    pos,          \* number of items input_gen has yielded so far
    ret,          \* read_input: the dictionary being filled (a dict value)
    stack,        \* the open calls of recursive_update below the top one:
                  \* one frame [key, idx] per nested container
    mode,         \* "update": in recursive_update's loop;
                  \* "coord": in parse_coord_block's loop, item = input_list[pos]
    status        \* "running", "returned", or the name of the raised exception

vars == <<input_list, pos, ret, stack, mode, status>>

----------------------------------------------------------------------------
(* Bounds *)

MaxLines == 5      \* longest input, in lines
MaxItemLen == 5    \* longest generated line of the splitter alphabet
MaxValueLen == 4   \* longest generated value text of the coercion alphabet

----------------------------------------------------------------------------
(* Python str *)

UpperCase == <<"A","B","C","D","E","F","G","H","I","J","K","L","M",
               "N","O","P","Q","R","S","T","U","V","W","X","Y","Z">>
LowerCase == <<"a","b","c","d","e","f","g","h","i","j","k","l","m",
               "n","o","p","q","r","s","t","u","v","w","x","y","z">>
Digits == <<"0","1","2","3","4","5","6","7","8","9">>
Whitespace == {" ", "\t", "\n", "\r"}

Min(a, b) == IF a < b THEN a ELSE b

\* the position of character c in the tuple q, 0 if absent
IndexIn(q, c) ==
    IF \E i \in 1..Len(q) : q[i] = c
    THEN CHOOSE i \in 1..Len(q) : q[i] = c
    ELSE 0

IsDigit(c) == IndexIn(Digits, c) # 0
DigitValue(c) == IndexIn(Digits, c) - 1

\* str.lower() on one character and on a str
LowerChar(c) ==
    IF IndexIn(UpperCase, c) # 0 THEN LowerCase[IndexIn(UpperCase, c)] ELSE c
Lower(s) == [i \in 1..Len(s) |-> LowerChar(s[i])]

\* c in s
Contains(s, c) == \E i \in 1..Len(s) : s[i] = c

\* s[a:] with a counted from 1
From(s, a) == SubSeq(s, a, Len(s))

\* s[0:n]
Prefix(s, n) == SubSeq(s, 1, Min(n, Len(s)))

\* the position of the first character of s that is not in the set cs
\* (Len(s) + 1 if there is none)
FirstNotIn(s, cs) ==
    IF \E i \in 1..Len(s) : s[i] \notin cs
    THEN CHOOSE i \in 1..Len(s) :
             s[i] \notin cs /\ \A j \in 1..(i - 1) : s[j] \in cs
    ELSE Len(s) + 1

\* the position of the last character of s that is not in cs (0 if none)
LastNotIn(s, cs) ==
    IF \E i \in 1..Len(s) : s[i] \notin cs
    THEN CHOOSE i \in 1..Len(s) :
             s[i] \notin cs /\ \A j \in (i + 1)..Len(s) : s[j] \in cs
    ELSE 0

\* s.lstrip(cs), s.rstrip(cs), s.strip()
LStrip(s, cs) == From(s, FirstNotIn(s, cs))
RStrip(s, cs) == SubSeq(s, 1, LastNotIn(s, cs))
Strip(s) == LStrip(RStrip(s, Whitespace), Whitespace)

\* the first and the last position of c in s, for a c in s
FirstIndexOf(s, c) ==
    CHOOSE i \in 1..Len(s) : s[i] = c /\ \A j \in 1..(i - 1) : s[j] # c
LastIndexOf(s, c) ==
    CHOOSE i \in 1..Len(s) : s[i] = c /\ \A j \in (i + 1)..Len(s) : s[j] # c

\* s.split(sep, maxsplit=1) for a one-character sep: one or two parts
Split1(s, sep) ==
    IF Contains(s, sep)
    THEN LET i == FirstIndexOf(s, sep)
         IN  <<SubSeq(s, 1, i - 1), From(s, i + 1)>>
    ELSE <<s>>

\* s.rsplit(sep, maxsplit=1)
RSplit1(s, sep) ==
    IF Contains(s, sep)
    THEN LET i == LastIndexOf(s, sep)
         IN  <<SubSeq(s, 1, i - 1), From(s, i + 1)>>
    ELSE <<s>>

----------------------------------------------------------------------------
(* Python numeric literals: what int(str) and float(str) accept *)

\* digits with single underscores between them
IsDigitRun(s) ==
    /\ Len(s) > 0
    /\ IsDigit(s[1]) /\ IsDigit(s[Len(s)])
    /\ \A i \in 1..Len(s) : IsDigit(s[i]) \/ s[i] = "_"
    /\ \A i \in 1..(Len(s) - 1) : ~(s[i] = "_" /\ s[i + 1] = "_")

RECURSIVE DigitRunValue(_)
DigitRunValue(s) ==
    IF Len(s) = 0 THEN 0
    ELSE LET c == s[Len(s)]
             r == DigitRunValue(SubSeq(s, 1, Len(s) - 1))
         IN  IF c = "_" THEN r ELSE 10 * r + DigitValue(c)

\* the number of digits of a digit run
DigitCount(s) == Cardinality({i \in 1..Len(s) : IsDigit(s[i])})

HasSign(s) == Len(s) > 0 /\ s[1] \in {"+", "-"}
Unsigned(s) == IF HasSign(s) THEN From(s, 2) ELSE s
SignOf(s) == IF Len(s) > 0 /\ s[1] = "-" THEN -1 ELSE 1

\* int(s) succeeds
IsIntLiteral(s) == IsDigitRun(Unsigned(Strip(s)))
IntValue(s) == SignOf(Strip(s)) * DigitRunValue(Unsigned(Strip(s)))

\* the mantissa and the exponent part of an unsigned decimal literal
Mantissa(u) ==
    IF Contains(Lower(u), "e") THEN Split1(Lower(u), "e")[1] ELSE u
Exponent(u) ==
    IF Contains(Lower(u), "e") THEN Split1(Lower(u), "e")[2] ELSE <<"0">>
IntPart(u) == Split1(Mantissa(u), ".")[1]
FracPart(u) ==
    IF Contains(Mantissa(u), ".") THEN Split1(Mantissa(u), ".")[2] ELSE <<>>

\* float(s) succeeds, for an s that is not one of inf, infinity, nan
IsDecimalLiteral(s) ==
    LET u == Unsigned(Strip(s))
    IN  /\ IntPart(u) = <<>> \/ IsDigitRun(IntPart(u))
        /\ FracPart(u) = <<>> \/ IsDigitRun(FracPart(u))
        /\ IntPart(u) # <<>> \/ FracPart(u) # <<>>
        /\ IsDigitRun(Unsigned(Exponent(u)))

IsSpecialFloat(s) ==
    Lower(Unsigned(Strip(s))) \in
        { <<"i","n","f">>, <<"n","a","n">>,
          <<"i","n","f","i","n","i","t","y">> }

IsFloatLiteral(s) == IsSpecialFloat(s) \/ IsDecimalLiteral(s)

RECURSIVE Normalize(_, _)
Normalize(m, e) ==
    IF m = 0 THEN <<0, 0>>
    ELSE IF m % 10 = 0 THEN Normalize(m \div 10, e + 1)
    ELSE <<m, e>>

\* float(s) for a decimal literal, as <<m, e>> with value m * 10^e
DecimalValue(s) ==
    LET u == Unsigned(Strip(s))
        m == DigitRunValue(IntPart(u) \o FracPart(u))
        e == SignOf(Exponent(u)) * DigitRunValue(Unsigned(Exponent(u)))
             - DigitCount(FracPart(u))
    IN  Normalize(SignOf(Strip(s)) * m, e)

FloatValue(s) ==
    IF IsSpecialFloat(s) THEN <<Lower(Unsigned(Strip(s))), SignOf(Strip(s))>>
    ELSE DecimalValue(s)

----------------------------------------------------------------------------
(* Values of the result *)

PyInt(n) == [int |-> n]
PyFloat(x) == [float |-> x]
PyStr(s) == [str |-> s]
PyDict(f) == [dict |-> f]
PyList(q) == [list |-> q]

IsInt(v) == DOMAIN v = {"int"}
IsFloat(v) == DOMAIN v = {"float"}
IsStr(v) == DOMAIN v = {"str"}
IsDict(v) == DOMAIN v = {"dict"}
IsList(v) == DOMAIN v = {"list"}

EmptyDict == PyDict(<<>>)

\* key in d
HasKey(d, k) == k \in DOMAIN d.dict

\* d[k] = v on a copy of d
SetItem(d, k, v) ==
    PyDict([x \in (DOMAIN d.dict) \cup {k} |-> IF x = k THEN v ELSE d.dict[x]])

----------------------------------------------------------------------------
(* value_to_float, value_to_int, split_str, parse_multi_keys *)

value_to_float(item) ==
    IF IsFloatLiteral(item) THEN PyFloat(FloatValue(item)) ELSE PyStr(item)

value_to_int(item) ==
    IF IsIntLiteral(item) THEN PyInt(IntValue(item)) ELSE PyStr(item)

\* parse_multi_keys(item) for an item that contains a space
\* a key that is lowercased as a whole
parse_multi_keys_lower_all(item) == Lower(LStrip(item, {"&"}))

parse_multi_keys(item) ==
    LET i1 == Split1(item, " ")[1]
        i2 == Split1(item, " ")[2]
    IN  Lower(LStrip(i1, {"&"})) \o <<" ">> \o i2

\* a split at the last separator instead of the first
split_str_parts_rsplit(item) == RSplit1(item, " ")

\* item.split(sep, maxsplit=1) of split_str, sep being " "
split_str_parts(item) == Split1(item, " ")

\* split_str(item): <<key, value>>
split_str(item) ==
    LET parts == split_str_parts(item)
        key == IF Len(parts) = 2 THEN parts[1] ELSE item
        value == IF Len(parts) = 2 THEN parts[2] ELSE <<>>
    IN  << IF Contains(key, " ") THEN parse_multi_keys(key) ELSE Lower(key),
           value >>

\* the coercion without the test for '.': int first, then float
coerce_without_dot_test(value) ==
    IF IsIntLiteral(value) THEN value_to_int(value) ELSE value_to_float(value)

\* the value parse_block stores for the value text of a line
coerce(value) ==
    IF Contains(value, ".") THEN value_to_float(value) ELSE value_to_int(value)

\* a parse_block that keeps the value a key already has
parse_block_keep_first(item, container) ==
    IF HasKey(container, split_str(item)[1]) THEN container
    ELSE SetItem(container, split_str(item)[1], coerce(split_str(item)[2]))

\* parse_block(item, container): the container after the call
parse_block(item, container) ==
    SetItem(container, split_str(item)[1], coerce(split_str(item)[2]))

----------------------------------------------------------------------------
(* Containers: the dictionary a call of recursive_update fills *)

\* the child of dictionary d that frame f names: d[key] (idx = 0), or the
\* idx-th element of the list d[key]
Child(d, f) ==
    IF f.idx = 0 THEN d.dict[f.key] ELSE d.dict[f.key].list[f.idx]

RECURSIVE GetAt(_, _)
GetAt(d, path) ==
    IF path = <<>> THEN d ELSE GetAt(Child(d, Head(path)), Tail(path))

\* d with the dictionary at path replaced by new (an in-place update of the
\* dictionary at path, seen from the root)
RECURSIVE PutAt(_, _, _)
PutAt(d, path, new) ==
    IF path = <<>> THEN new
    ELSE LET f == Head(path)
             c == PutAt(Child(d, f), Tail(path), new)
         IN  IF f.idx = 0
             THEN SetItem(d, f.key, c)
             ELSE SetItem(d, f.key,
                          PyList([d.dict[f.key].list EXCEPT ![f.idx] = c]))

\* the container argument of the innermost open call of recursive_update
container == GetAt(ret, stack)

----------------------------------------------------------------------------
(* parse_header and parse_coord_block on a container *)

\* the key parse_header makes of a header line
header_key(item) ==
    IF Contains(item, " ") THEN parse_multi_keys(item)
    ELSE Lower(LStrip(item, {"&"}))

\* parse_header without the promotion to a list: a plain overwrite
open_block_overwrite(c, key) == SetItem(c, key, EmptyDict)

\* a promotion that starts the list from two new dictionaries
open_block_drops_old(c, key) ==
    IF HasKey(c, key) /\ IsList(c.dict[key])
    THEN SetItem(c, key, PyList(Append(c.dict[key].list, EmptyDict)))
    ELSE IF HasKey(c, key)
    THEN SetItem(c, key, PyList(<<EmptyDict, EmptyDict>>))
    ELSE SetItem(c, key, EmptyDict)

\* the container after parse_header has stored the new empty dictionary
open_block(c, key) ==
    IF HasKey(c, key) /\ IsList(c.dict[key])
    THEN SetItem(c, key, PyList(Append(c.dict[key].list, EmptyDict)))
    ELSE IF HasKey(c, key)
    THEN SetItem(c, key, PyList(<<c.dict[key], EmptyDict>>))
    ELSE SetItem(c, key, EmptyDict)

\* the frame of the dictionary parse_header recurses into: c[key][-1] when
\* c[key] is a list, c[key] otherwise; c is the container after open_block
open_frame(c, key) ==
    IF IsList(c.dict[key])
    THEN [key |-> key, idx |-> Len(c.dict[key].list)]
    ELSE [key |-> key, idx |-> 0]

KeyCoord == <<"c","o","o","r","d">>
KeyUnderscore1 == <<"_","1">>
StrCoordHeader == <<"&","c","o","o","r","d">>
StrEnd == <<"&","e","n","d">>

\* container['coord'] = {}; container['coord']['_1'] = []
new_coord(c) ==
    SetItem(c, KeyCoord, SetItem(EmptyDict, KeyUnderscore1, PyList(<<>>)))

\* a capture that normalizes the line as a key is normalized
coord_append_lower(c, item) ==
    SetItem(c, KeyCoord,
        SetItem(c.dict[KeyCoord], KeyUnderscore1,
            PyList(Append(c.dict[KeyCoord].dict[KeyUnderscore1].list,
                          PyStr(Lower(item))))))

\* coord.append(item)
coord_append(c, item) ==
    SetItem(c, KeyCoord,
        SetItem(c.dict[KeyCoord], KeyUnderscore1,
            PyList(Append(c.dict[KeyCoord].dict[KeyUnderscore1].list,
                          PyStr(item)))))

----------------------------------------------------------------------------
(* The lines of the inputs *)

LineA == <<"&","A">>
LineEnd == <<"&","E","N","D">>
LineCoord == <<"&","C","o","o","r","d">>
LineKV == <<"A"," ","1">>
LineEmpty == <<>>
LineB == <<"b"," ","x">>

Lines == {LineA, LineEnd, LineCoord, LineKV, LineEmpty, LineB}

\* the &GLOBAL block of the docstring of read_input
LineGlobal == <<"&","G","L","O","B","A","L">>
LinePrintLevel ==
    <<"P","R","I","N","T","_","L","E","V","E","L"," "," ","L","O","W">>
LineProject ==
    <<"P","R","O","J","E","C","T"," "," ","e","x","a","m","p","l","e">>
LineRunType ==
    <<"R","U","N","_","T","Y","P","E"," "," ",
      "E","N","E","R","G","Y","_","F","O","R","C","E">>

ExampleLines ==
    {LineGlobal, LinePrintLevel, LineProject, LineRunType, LineEnd,
     LineCoord, LineEmpty}

\* all strs over the characters cs, up to n characters
Strings(cs, n) == UNION {[1..k -> cs] : k \in 0..n}

\* a line as _sanitize_line leaves it: no tab, no trailing whitespace, no
\* leading space
IsSanitized(s) ==
    /\ ~Contains(s, "\t")
    /\ Len(s) > 0 => s[Len(s)] \notin Whitespace /\ s[1] # " "

----------------------------------------------------------------------------
(* read_input *)

InitWith(inputs) ==
    /\ input_list \in inputs
    /\ pos = 0
    /\ ret = EmptyDict
    /\ stack = <<>>
    /\ mode = "update"
    /\ status = "running"

Init == InitWith(Strings(Lines, MaxLines))

\* recursive_update's loop has an item to take from input_gen
HasItem == status = "running" /\ mode = "update" /\ pos < Len(input_list)
item == input_list[pos + 1]

IsCoordLine(s) == Lower(s) = StrCoordHeader
\* a terminator test on the whole line
IsEndLine_exact(s) == Lower(s) = StrEnd

IsEndLine(s) == Lower(Prefix(s, 4)) = StrEnd
IsHeaderLine(s) == Len(s) > 0 /\ s[1] = "&" /\ ~IsEndLine(s)

\* item.lower() == '&coord': parse_coord_block up to the test of its loop
recursive_update_coord ==
    /\ HasItem
    /\ IsCoordLine(item)
    /\ IF pos + 1 < Len(input_list)
       THEN /\ pos' = pos + 2
            /\ ret' = PutAt(ret, stack, new_coord(container))
            /\ mode' = "coord"
            /\ UNCHANGED status
       ELSE /\ pos' = pos + 1
            /\ status' = "StopIteration"
            /\ UNCHANGED <<ret, mode>>
    /\ UNCHANGED <<input_list, stack>>

\* a capture that treats exhaustion as the end of the section
parse_coord_block_lenient ==
    /\ status = "running"
    /\ mode = "coord"
    /\ IF Lower(input_list[pos]) = StrEnd
       THEN /\ mode' = "update"
            /\ UNCHANGED <<ret, pos, status>>
       ELSE /\ ret' = PutAt(ret, stack,
                            coord_append(container, input_list[pos]))
            /\ IF pos < Len(input_list)
               THEN pos' = pos + 1 /\ UNCHANGED <<status, mode>>
               ELSE mode' = "update" /\ UNCHANGED <<pos, status>>
    /\ UNCHANGED <<input_list, stack>>

\* a capture that ends at any line beginning with '&end'
parse_coord_block_prefix ==
    /\ status = "running"
    /\ mode = "coord"
    /\ IF IsEndLine(input_list[pos])
       THEN /\ mode' = "update"
            /\ UNCHANGED <<ret, pos, status>>
       ELSE /\ ret' = PutAt(ret, stack,
                            coord_append(container, input_list[pos]))
            /\ IF pos < Len(input_list)
               THEN pos' = pos + 1 /\ UNCHANGED status
               ELSE status' = "StopIteration" /\ UNCHANGED pos
            /\ UNCHANGED mode
    /\ UNCHANGED <<input_list, stack>>

\* one turn of the loop of parse_coord_block; its item is input_list[pos]
parse_coord_block ==
    /\ status = "running"
    /\ mode = "coord"
    /\ IF Lower(input_list[pos]) = StrEnd
       THEN /\ mode' = "update"
            /\ UNCHANGED <<ret, pos, status>>
       ELSE /\ ret' = PutAt(ret, stack,
                            coord_append(container, input_list[pos]))
            /\ IF pos < Len(input_list)
               THEN pos' = pos + 1 /\ UNCHANGED status
               ELSE status' = "StopIteration" /\ UNCHANGED pos
            /\ UNCHANGED mode
    /\ UNCHANGED <<input_list, stack>>

\* item[0] of an empty item
recursive_update_IndexError ==
    /\ HasItem
    /\ ~IsCoordLine(item)
    /\ Len(item) = 0
    /\ pos' = pos + 1
    /\ status' = "IndexError"
    /\ UNCHANGED <<input_list, ret, stack, mode>>

\* item[0] == '&' and item[0:4].lower() != '&end': parse_header
parse_header ==
    /\ HasItem
    /\ ~IsCoordLine(item)
    /\ IsHeaderLine(item)
    /\ pos' = pos + 1
    /\ ret' = PutAt(ret, stack, open_block(container, header_key(item)))
    /\ stack' = Append(stack, open_frame(open_block(container, header_key(item)),
                                         header_key(item)))
    /\ UNCHANGED <<input_list, mode, status>>

\* item[0:4].lower() != '&end': parse_block
recursive_update_block ==
    /\ HasItem
    /\ ~IsCoordLine(item)
    /\ Len(item) > 0
    /\ ~IsHeaderLine(item)
    /\ ~IsEndLine(item)
    /\ pos' = pos + 1
    /\ ret' = PutAt(ret, stack, parse_block(item, container))
    /\ UNCHANGED <<input_list, stack, mode, status>>

\* a terminator that returns from every open call at once
recursive_update_end_all ==
    /\ HasItem
    /\ ~IsCoordLine(item)
    /\ Len(item) > 0
    /\ IsEndLine(item)
    /\ pos' = pos + 1
    /\ IF stack = <<>>
       THEN status' = "returned" /\ UNCHANGED stack
       ELSE stack' = <<>> /\ UNCHANGED status
    /\ UNCHANGED <<input_list, ret, mode>>

\* a terminator that is left in the input for the caller to read again
recursive_update_end_reread ==
    /\ HasItem
    /\ ~IsCoordLine(item)
    /\ Len(item) > 0
    /\ IsEndLine(item)
    /\ IF stack = <<>>
       THEN status' = "returned" /\ pos' = pos + 1 /\ UNCHANGED stack
       ELSE stack' = SubSeq(stack, 1, Len(stack) - 1) /\ UNCHANGED <<status, pos>>
    /\ UNCHANGED <<input_list, ret, mode>>

\* End of a block: this call of recursive_update returns; the top call
\* returns to read_input, which returns ret
recursive_update_end ==
    /\ HasItem
    /\ ~IsCoordLine(item)
    /\ Len(item) > 0
    /\ IsEndLine(item)
    /\ pos' = pos + 1
    /\ IF stack = <<>>
       THEN status' = "returned" /\ UNCHANGED stack
       ELSE stack' = SubSeq(stack, 1, Len(stack) - 1) /\ UNCHANGED status
    /\ UNCHANGED <<input_list, ret, mode>>

\* an exhaustion that raises when a block is still open
recursive_update_exhausted_strict ==
    /\ status = "running"
    /\ mode = "update"
    /\ pos = Len(input_list)
    /\ stack' = <<>>
    /\ status' = IF stack = <<>> THEN "returned" ELSE "StopIteration"
    /\ UNCHANGED <<input_list, pos, ret, mode>>

\* input_gen is exhausted: the loop of every open call ends, read_input
\* returns ret
recursive_update_exhausted ==
    /\ status = "running"
    /\ mode = "update"
    /\ pos = Len(input_list)
    /\ stack' = <<>>
    /\ status' = "returned"
    /\ UNCHANGED <<input_list, pos, ret, mode>>

Next ==
    \/ recursive_update_coord
    \/ parse_coord_block
    \/ recursive_update_IndexError
    \/ parse_header
    \/ recursive_update_block
    \/ recursive_update_end
    \/ recursive_update_exhausted

Spec == Init /\ [][Next]_vars

\* the inputs of the docstring's &GLOBAL example
InitExample == InitWith(Strings(ExampleLines, MaxLines))
SpecExample == InitExample /\ [][Next]_vars

\* one-line inputs for split_str and the coercion of parse_block: lines of
\* the tokens A, B, C, lines "K <value>", and the values of the docstrings
\* and tests
SplitChars == {"A", "B", "C", " "}
ValueChars == {"1", "2", ".", "e", "-", "T", " "}
ValuePrefix == <<"K", " ">>
DocValues ==
    { <<"2",".","0">>, <<"1",".","5">>, <<"2">>, <<"4","0","0">>,
      <<"o","n","e">>, <<"t","e","s","t">>, <<"1","e","-","0","6">>,
      <<".","T","R","U","E",".">>, <<"C","D"," ","C","D">>,
      <<"1","1",".","4">>, <<" ","L","O","W">> }

SplitItems ==
    {s \in Strings(SplitChars, MaxItemLen) : Len(s) > 0 /\ IsSanitized(s)}
ValueItems ==
    {ValuePrefix \o v : v \in
        {w \in Strings(ValueChars, MaxValueLen) \cup DocValues :
            Len(w) > 0 /\ IsSanitized(ValuePrefix \o w)}}

InitBlock == InitWith({<<s>> : s \in SplitItems \cup ValueItems})
NextBlock == recursive_update_block \/ recursive_update_exhausted
SpecBlock == InitBlock /\ [][NextBlock]_vars

\* inputs with two key/value lines of the same normalized key
LineKV2 == <<"a"," ","2",".","5">>
ScalarLines == {LineKV, LineKV2, LineA, LineEnd, LineCoord, LineEmpty}
InitScalar == InitWith(Strings(ScalarLines, MaxLines))
SpecScalar == InitScalar /\ [][Next]_vars

\* inputs with a header that has arguments and a line that begins with
\* '&end' without being equal to it
LineArgs == <<"&","A"," ","X","y">>
LineEndArgs == <<"&","E","n","D"," ","c">>
KeyLines == {LineArgs, LineEndArgs, LineEnd, LineCoord, LineKV, LineEmpty}
InitKeys == InitWith(Strings(KeyLines, MaxLines))
SpecKeys == InitKeys /\ [][Next]_vars

\* read_input from the file on: while status is "open" the file f is open
\* and input_list holds its lines as iterating over f yields them, each with
\* its newline (the last line of a file may have none); ret is made once the
\* lines are read
MaxFileLines == 4

RECURSIVE Without(_, _)
\* s.replace(c, '') for a one-character c
Without(s, c) ==
    IF s = <<>> THEN <<>>
    ELSE (IF Head(s) = c THEN <<>> ELSE <<Head(s)>>) \o Without(Tail(s), c)

\* a sanitizer that puts a space where a tab was
sanitize_line_tab_to_space(line) ==
    LET s == RStrip(RStrip(line, {"\n"}), Whitespace)
    IN  LStrip([i \in 1..Len(s) |-> IF s[i] = "\t" THEN " " ELSE s[i]], {" "})

\* _sanitize_line
sanitize_line(line) ==
    LStrip(Without(RStrip(RStrip(line, {"\n"}), Whitespace), "\t"), {" "})

\* a filter that keeps every line
keep_line_all(line) == line = line

\* a filter that drops every blank line
keep_line_nonblank(line) == Strip(line) # <<>>

\* the filter of the comprehension: item != '\n'
keep_line(line) == line # <<"\n">>

\* [_sanitize_line(item) for item in f if item != '\n']
sanitize_lines(f) ==
    LET kept == SelectSeq(f, keep_line)
    IN  [i \in 1..Len(kept) |-> sanitize_line(kept[i])]

read_lines ==
    /\ status = "open"
    /\ input_list' = sanitize_lines(input_list)
    /\ status' = "running"
    /\ UNCHANGED <<pos, ret, stack, mode>>

RawNewline == <<"\n">>
RawBlank == <<" ","\t","\n">>
RawBlankEOF == <<" ">>
RawHeader == <<"\t","&","A","\n">>
RawEnd == <<"&","E","N","D"," ","\n">>
RawCoord == <<" ","&","C","o","o","r","d","\n">>
RawKV == <<"A","\t"," ","1","\n">>
RawLines == {RawNewline, RawBlank, RawHeader, RawEnd, RawCoord, RawKV}

\* the lines of a file: every line but the last ends with a newline
IsFile(f) == \A i \in 1..(Len(f) - 1) : f[i][Len(f[i])] = "\n"

Files == {f \in Strings(RawLines \cup {RawBlankEOF}, MaxFileLines) : IsFile(f)}

InitFile ==
    /\ input_list \in Files
    /\ pos = 0
    /\ ret = EmptyDict
    /\ stack = <<>>
    /\ mode = "update"
    /\ status = "open"

NextFile == read_lines \/ Next
SpecFile == InitFile /\ [][NextFile]_vars

\* files for the sanitizer: one line is any string of spaces, tabs and a
\* letter, with or without its newline, among bare newlines and lines 'A 1'
MaxRawLen == 3
RawChars == {" ", "\t", "x"}
AnyLines ==
    {s \o <<"\n">> : s \in Strings(RawChars, MaxRawLen)}
        \cup (Strings(RawChars, MaxRawLen) \ {<<>>})

InsertAt(f, i, line) == SubSeq(f, 1, i - 1) \o <<line>> \o SubSeq(f, i, Len(f))

SanitizerFiles ==
    {f \in UNION {{InsertAt(c, i, line) : i \in 1..(Len(c) + 1), line \in AnyLines} :
                     c \in Strings({RawNewline, RawKV}, MaxFileLines - 1)} :
        IsFile(f)}

InitSanitizer ==
    /\ input_list \in SanitizerFiles
    /\ pos = 0
    /\ ret = EmptyDict
    /\ stack = <<>>
    /\ mode = "update"
    /\ status = "open"

NextSanitizer == read_lines
SpecSanitizer == InitSanitizer /\ [][NextSanitizer]_vars

\* read_input runs to its end: the program is one thread without a
\* suspension point, so a step that can be taken is taken
MaxFairLines == 3
FairLines == {LineA, LineEnd, LineCoord, LineKV, LineEmpty}
InitFair == InitWith(Strings(FairLines, MaxFairLines))
SpecFair == InitFair /\ [][Next]_vars /\ WF_vars(Next)

\* the value read_input returns
Returned == status = "returned"
Raised == status \in {"StopIteration", "IndexError"}

TypeOK ==
    /\ pos \in 0..Len(input_list)
    /\ IsDict(ret)
    /\ mode \in {"update", "coord"}
    /\ status \in {"open", "running", "returned", "StopIteration", "IndexError"}
    /\ IsDict(container)

----------------------------------------------------------------------------
(* Claims *)

KeyA == <<"a">>
KeyB == <<"b">>
KeyGlobal == <<"g","l","o","b","a","l">>

\* the lines input_gen has yielded
Consumed == SubSeq(input_list, 1, pos)

GlobalExample ==
    <<LineGlobal, LinePrintLevel, LineProject, LineRunType, LineEnd>>
GlobalExampleTree ==
    PyDict(KeyGlobal :> PyDict(
        <<"p","r","i","n","t","_","l","e","v","e","l">>
            :> PyStr(<<"L","O","W">>)
        @@ <<"p","r","o","j","e","c","t">>
            :> PyStr(<<"e","x","a","m","p","l","e">>)
        @@ <<"r","u","n","_","t","y","p","e">>
            :> PyStr(<<"E","N","E","R","G","Y","_","F","O","R","C","E">>)))

\* C1: read_input on the &GLOBAL example of the docstring, whose lines
\* separate key and value by two spaces, returns {'global': {'print_level':
\* 'LOW', 'project': 'example', 'run_type': 'ENERGY_FORCE'}}: each value is
\* the text after the whole run of separators, without leading whitespace.
C1_GlobalExample ==
    (Returned /\ input_list = GlobalExample) => ret = GlobalExampleTree

\* Inputs made of &A blocks only, each closed by &END except possibly the
\* last, with key/value lines as their bodies: the header key 'a' is opened
\* k times in the root container and not written otherwise.
IsFlatBlocks(s) ==
    /\ Len(s) >= 1
    /\ s[1] = LineA
    /\ \A i \in 1..Len(s) : s[i] \in {LineA, LineEnd, LineKV, LineB}
    /\ \A i \in 2..Len(s) : s[i] = LineA <=> s[i - 1] = LineEnd

HeaderPositions(s) == {i \in 1..Len(s) : s[i] = LineA}
NthHeader(s, n) ==
    CHOOSE i \in HeaderPositions(s) :
        Cardinality({j \in HeaderPositions(s) : j <= i}) = n

\* the lines of the block opened at position h
BodyOf(s, h) ==
    {s[i] : i \in {i \in (h + 1)..Len(s) :
                     \A j \in (h + 1)..i : s[j] \notin {LineA, LineEnd}}}

\* the mapping that holds exactly the key/value lines of a body
BlockOf(body) ==
    PyDict([k \in {x \in {KeyA, KeyB} :
                     \/ x = KeyA /\ LineKV \in body
                     \/ x = KeyB /\ LineB \in body}
            |-> IF k = KeyA THEN PyInt(1) ELSE PyStr(<<"x">>)])

FlatBlocksTree(s) ==
    LET k == Cardinality(HeaderPositions(s))
    IN  IF k = 1
        THEN PyDict(KeyA :> BlockOf(BodyOf(s, NthHeader(s, 1))))
        ELSE PyDict(KeyA :>
                 PyList([n \in 1..k |-> BlockOf(BodyOf(s, NthHeader(s, n)))]))

\* C2: when the header key 'a' has been opened k times in the root container
\* and is not written otherwise, the entry is the mapping of the block itself
\* for k = 1 and for k >= 2 the list of the k mappings in order of
\* appearance, each holding exactly the lines of its own block.
C2_DuplicateHeaders ==
    IsFlatBlocks(Consumed) => ret = FlatBlocksTree(Consumed)

C2_Witness ==
    /\ Returned
    /\ IsFlatBlocks(input_list)
    /\ Cardinality(HeaderPositions(input_list)) = 3
    /\ IsList(ret.dict[KeyA]) /\ Len(ret.dict[KeyA].list) = 3

\* C3: a key of the container being filled that holds a list holds a list
\* after every step (header, key/value line, coordinate section).
C3_ListNeverReverts ==
    [][\A k \in DOMAIN container.dict :
          IsList(container.dict[k]) =>
              /\ k \in DOMAIN GetAt(ret', stack).dict
              /\ IsList(GetAt(ret', stack).dict[k])]_vars

\* C5: a terminator line met while no block is open makes read_input raise.
C5_TopLevelTerminatorRaises ==
    [][(HasItem /\ ~IsCoordLine(item) /\ IsEndLine(item) /\ stack = <<>>)
          => Raised']_vars

ItemA == <<"A">>
ItemAB == <<"A", " ", "B">>
ItemABC == <<"A", " ", "B", " ", "C">>

IsOpenChain(s) ==
    /\ \A i \in 1..Len(s) : s[i] \in {LineA, LineKV, LineB}
    /\ \E i \in 1..Len(s) : s[i] = LineA
    /\ \A i \in 1..Len(s) :
           s[i] = LineKV => \A j \in (i + 1)..Len(s) : s[j] # LineA

\* the tree of such an input: every header nests in the block before it
RECURSIVE ChainTree(_)
ChainTree(s) ==
    IF \E i \in 1..Len(s) : s[i] = LineA
    THEN LET h == FirstIndexOf(s, LineA)
         IN  PyDict(BlockOf({s[i] : i \in 1..(h - 1)}).dict
                    @@ KeyA :> ChainTree(From(s, h + 1)))
    ELSE BlockOf({s[i] : i \in 1..Len(s)})

\* C6: when input_gen is exhausted while blocks are open, outside a
\* coordinate section, read_input raises nothing and returns the tree built
\* so far with every open block closed; the tree holds every line read.
C6_ExhaustionClosesBlocks ==
    /\ []((status # "running" /\ IsOpenChain(input_list)) =>
              (Returned /\ pos = Len(input_list)
                        /\ ret = ChainTree(input_list)))
    /\ [][(status = "running" /\ mode = "update" /\ pos = Len(input_list)
              /\ stack # <<>>)
             => (status' = "returned" /\ stack' = <<>> /\ ret' = ret)]_vars

C6_Witness ==
    /\ Returned
    /\ IsOpenChain(input_list)
    /\ Cardinality(HeaderPositions(input_list)) >= 2
    /\ input_list[Len(input_list)] = LineKV
    /\ ret = ChainTree(input_list)

\* a coordinate section of s is never closed: a '&coord' line that no line
\* equal to '&end' follows
InCaptureAtEnd(s) ==
    \E j \in 1..Len(s) :
        /\ IsCoordLine(s[j])
        /\ \A i \in (j + 1)..Len(s) : Lower(s[i]) # StrEnd

\* C7: when every line has been read, read_input has raised StopIteration
\* exactly if the input ends inside a coordinate section ('&coord' as the
\* last line, or coordinate lines without a terminator), whatever the depth.
C7_ExhaustedCaptureRaises ==
    (status # "running" /\ pos = Len(input_list)) =>
        (status = "StopIteration" <=> InCaptureAtEnd(input_list))

C7_Witness ==
    /\ status = "StopIteration"
    /\ Len(stack) >= 2
    /\ HasKey(container, KeyCoord)
    /\ Len(container.dict[KeyCoord].dict[KeyUnderscore1].list) >= 1

\* the '&coord' line that opened the section whose item is line p
CoordStart(s, p) ==
    LET J == {j \in 1..(p - 1) :
                 /\ IsCoordLine(s[j])
                 /\ \A i \in (j + 1)..(p - 1) : Lower(s[i]) # StrEnd}
    IN  CHOOSE j \in J : \A x \in J : j <= x

\* C8: when the terminator of a coordinate section is met, the container
\* holds under 'coord' exactly {'_1': [the lines after the '&coord' line, in
\* order, as strings]}, and recursive_update goes on in the same container
\* with the line after the terminator.
C8_CoordCapture ==
    [][(status = "running" /\ mode = "coord"
           /\ Lower(input_list[pos]) = StrEnd)
          => LET j == CoordStart(input_list, pos)
             IN  /\ mode' = "update" /\ status' = "running"
                 /\ stack' = stack /\ pos' = pos
                 /\ GetAt(ret', stack').dict[KeyCoord] =
                        PyDict(KeyUnderscore1 :>
                            PyList([i \in 1..(pos - 1 - j) |->
                                        PyStr(input_list[j + i])]))]_vars

C8_Witness ==
    /\ status = "running" /\ mode = "update"
    /\ pos >= 4
    /\ Lower(input_list[pos]) = StrEnd
    /\ IsCoordLine(input_list[pos - 3])
    /\ HasKey(container, KeyCoord)
    /\ container.dict[KeyCoord] =
           PyDict(KeyUnderscore1 :>
               PyList(<<PyStr(input_list[pos - 2]),
                        PyStr(input_list[pos - 1])>>))

\* every list below v holds dictionaries only, the list coord/_1 excepted
RECURSIVE ListsHoldBlocks(_, _)
ListsHoldBlocks(v, parentKey) ==
    IsDict(v) =>
        \A k \in DOMAIN v.dict :
            LET c == v.dict[k]
            IN  IF IsList(c)
                THEN \/ parentKey = KeyCoord /\ k = KeyUnderscore1
                     \/ \A i \in 1..Len(c.list) :
                            /\ IsDict(c.list[i])
                            /\ ListsHoldBlocks(c.list[i], k)
                ELSE ListsHoldBlocks(c, k)

\* C9: every list of the tree read_input returns, the list coord/_1
\* excepted, holds mappings only.
C9_ListsOfBlocks == Returned => ListsHoldBlocks(ret, <<>>)

\* C10: the value of a key/value line 'K <value>' is stored as a float when
\* it contains '.' and is a numeric literal, as an int when it contains no
\* '.' and is an integer literal, and otherwise as the unchanged string;
\* nothing is raised; '2.0' and '1.5' become floats, never ints.
C10_Coercion ==
    (pos = 1 /\ input_list[1] \in ValueItems) =>
        LET v == From(input_list[1], 3)
            stored == ret.dict[<<"k">>]
        IN  /\ ~Raised
            /\ DOMAIN ret.dict = {<<"k">>}
            /\ IsFloat(stored) <=> (Contains(v, ".") /\ IsFloatLiteral(v))
            /\ IsInt(stored) <=> (~Contains(v, ".") /\ IsIntLiteral(v))
            /\ (~IsFloat(stored) /\ ~IsInt(stored)) => stored = PyStr(v)
            /\ v = <<"2",".","0">> => stored = PyFloat(<<2, 0>>)
            /\ v = <<"1",".","5">> => stored = PyFloat(<<15, -1>>)
            /\ v = <<"2">> => stored = PyInt(2)
            /\ v \in { <<"o","n","e">>, <<"1","e","-","0","6">>,
                       <<".","T","R","U","E",".">>, <<"C","D"," ","C","D">> }
                   => stored = PyStr(v)

C10_Witness ==
    /\ pos = 1
    /\ input_list = << <<"K"," ","2",".","0">> >>
    /\ ret = PyDict(<<"k">> :> PyFloat(<<2, 0>>))

\* the number of '&A' lines an input begins with
LeadingHeaders(s) == FirstNotIn(s, {LineA}) - 1

\* Inputs made of headers '&A' followed by key/value lines of the key 'a'
\* only: the key/value lines all land in the innermost block.
IsScalarRun(s) ==
    \A i \in (LeadingHeaders(s) + 1)..Len(s) : s[i] \in {LineKV, LineKV2}

\* inner wrapped in d blocks of key 'a'
RECURSIVE Nest(_, _)
Nest(d, inner) == IF d = 0 THEN inner ELSE PyDict(KeyA :> Nest(d - 1, inner))

\* the coerced value of a key/value line of the key 'a'
ScalarOf(line) == IF line = LineKV THEN PyInt(1) ELSE PyFloat(<<25, -1>>)

\* C11: after several key/value lines of the same normalized key in one
\* container the entry holds the coerced value of the last of them only:
\* no list is made and nothing is raised.
C11_ScalarOverwrite ==
    IsScalarRun(Consumed) =>
        /\ ~Raised
        /\ ret = Nest(LeadingHeaders(Consumed),
                      IF LeadingHeaders(Consumed) = pos THEN EmptyDict
                      ELSE PyDict(KeyA :> ScalarOf(input_list[pos])))

C11_Witness ==
    /\ Returned
    /\ pos = 4
    /\ input_list = <<LineA, LineKV2, LineKV, LineKV2>>
    /\ ret = PyDict(KeyA :> PyDict(KeyA :> PyFloat(<<25, -1>>)))

\* the first space-delimited token of a key
FirstToken(k) == IF Contains(k, " ") THEN Prefix(k, FirstIndexOf(k, " ") - 1) ELSE k

\* every key of every mapping of v has a lower-case first token without a
\* leading '&'
RECURSIVE NormalizedKeys(_)
NormalizedKeys(v) ==
    IF IsDict(v)
    THEN \A k \in DOMAIN v.dict :
             /\ FirstToken(k) = Lower(FirstToken(k))
             /\ FirstToken(k) # <<>> => FirstToken(k)[1] # "&"
             /\ NormalizedKeys(v.dict[k])
    ELSE IF IsList(v)
    THEN \A i \in 1..Len(v.list) : NormalizedKeys(v.list[i])
    ELSE TRUE

\* a step that reads a key/value line: the key it writes into the open
\* container is the lowercased text before the first space of the line
KeyValueKeyLower ==
    (HasItem /\ Len(item) > 0 /\ item[1] # "&" /\ pos' = pos + 1) =>
        \E k \in DOMAIN GetAt(ret', stack).dict :
            /\ DOMAIN GetAt(ret', stack).dict = DOMAIN container.dict \cup {k}
            /\ k = Lower(k)
            /\ ~Contains(k, " ")
            /\ k = Lower(Prefix(item, Len(k)))
            /\ Len(item) > Len(k) => item[Len(k) + 1] = " "

\* a step that reads a header with arguments: the key of the block it opens
\* is the lowercased first token without '&', then the rest of the line as
\* it was written
HeaderKeyKeepsArguments ==
    (/\ HasItem /\ Len(item) > 0 /\ item[1] = "&" /\ Contains(item, " ")
     /\ Lower(Prefix(item, 4)) # StrEnd
     /\ pos' = pos + 1) =>
        /\ Len(stack') = Len(stack) + 1
        /\ LET k == stack'[Len(stack')].key
               sp == FirstIndexOf(item, " ")
           IN  /\ k \in DOMAIN GetAt(ret', stack).dict
               /\ Prefix(k, sp - 2) = Lower(SubSeq(item, 2, sp - 1))
               /\ From(k, sp - 1) = From(item, sp)

KeyAXy == <<"a"," ","X","y">>

IsEmptyFile(f) == \A i \in 1..Len(f) : f[i] = <<"\n">>

\* C13: an input of zero lines after sanitizing (an empty file, a file of
\* bare newlines) is read without an error and read_input returns the empty
\* mapping: from such a file the lines read are none, nothing is raised, the
\* tree stays empty and the only step left is the return.
C13_EmptyInput ==
    /\ [][(status = "open" /\ IsEmptyFile(input_list)) => input_list' = <<>>]_vars
    /\ [](status # "open" /\ input_list = <<>> => ~Raised /\ ret = EmptyDict)
    /\ [][(status = "running" /\ input_list = <<>>) => Returned']_vars

C13_Witness ==
    /\ Returned
    /\ input_list = <<>>
    /\ ret = EmptyDict

\* The positions in s of the headers that no terminator has closed yet, in
\* the order they were opened: a scan of the lines s[i..] that starts with
\* the headers open and inside coordinate capture iff cap.
RECURSIVE OpenHeaders(_, _, _, _)
OpenHeaders(s, i, open, cap) ==
    IF i > Len(s) THEN open
    ELSE IF cap THEN OpenHeaders(s, i + 1, open, Lower(s[i]) # StrEnd)
    ELSE IF Lower(s[i]) = StrCoordHeader THEN OpenHeaders(s, i + 1, open, TRUE)
    ELSE IF s[i] = <<>> THEN open
    ELSE IF Lower(Prefix(s[i], 4)) = StrEnd
    THEN IF open = <<>> THEN open
         ELSE OpenHeaders(s, i + 1, SubSeq(open, 1, Len(open) - 1), FALSE)
    ELSE IF s[i][1] = "&" THEN OpenHeaders(s, i + 1, Append(open, i), FALSE)
    ELSE OpenHeaders(s, i + 1, open, FALSE)

Unclosed == OpenHeaders(Consumed, 1, <<>>, FALSE)

\* the value the j-th frame of the stack stands in: an element of a list or
\* the entry itself
FrameValue(j) == GetAt(ret, SubSeq(stack, 1, j - 1)).dict[stack[j].key]

\* The open calls are the unclosed headers: one frame per unclosed header,
\* under the key of that header, and the block of the frame is the one the
\* header opened (the entry itself or the last element of its list).
ScopeIsUnclosedHeaders ==
    /\ Len(stack) = Len(Unclosed)
    /\ \A j \in 1..Len(stack) :
        /\ stack[j].key = header_key(input_list[Unclosed[j]])
        /\ IF IsList(FrameValue(j))
           THEN stack[j].idx = Len(FrameValue(j).list)
           ELSE stack[j].idx = 0 /\ IsDict(FrameValue(j))

\* d2 is d but for the dictionary at path
RECURSIVE SameExceptAt(_, _, _)
SameExceptAt(d, d2, path) ==
    \/ path = <<>>
    \/ /\ IsDict(d) /\ IsDict(d2)
       /\ DOMAIN d.dict = DOMAIN d2.dict
       /\ \A k \in DOMAIN d.dict \ {Head(path).key} : d.dict[k] = d2.dict[k]
       /\ LET v == d.dict[Head(path).key]
              v2 == d2.dict[Head(path).key]
              n == Head(path).idx
          IN  IF n = 0 THEN SameExceptAt(v, v2, Tail(path))
              ELSE /\ IsList(v) /\ IsList(v2)
                   /\ Len(v.list) = Len(v2.list)
                   /\ \A m \in (1..Len(v.list)) \ {n} : v.list[m] = v2.list[m]
                   /\ SameExceptAt(v.list[n], v2.list[n], Tail(path))

\* a terminator read outside coordinate capture returns one level up
TerminatorOneLevelUp ==
    (/\ HasItem /\ Lower(Prefix(item, 4)) = StrEnd /\ pos' = pos + 1) =>
        /\ ret' = ret
        /\ IF stack = <<>> THEN Returned'
           ELSE status' = "running" /\ stack' = SubSeq(stack, 1, Len(stack) - 1)

\* a key/value line or a header read outside coordinate capture is stored
\* in the innermost open block and nowhere else
StoredInInnermost ==
    (/\ HasItem /\ item # <<>> /\ Lower(Prefix(item, 4)) # StrEnd
     /\ Lower(item) # StrCoordHeader
     /\ pos' = pos + 1) =>
        /\ SameExceptAt(ret, ret', stack)
        /\ IF item[1] = "&" THEN header_key(item) \in DOMAIN GetAt(ret', stack).dict
           ELSE split_str(item)[1] \in DOMAIN GetAt(ret', stack).dict

\* C15: while the parse runs, the container being filled is the block of the
\* nearest unclosed header (the root if there is none) and the depth of the
\* recursion is the number of unclosed headers; a terminator returns exactly
\* one level up; a key/value line or a header is stored in the innermost open
\* block only.
C15_ScopeTracking ==
    /\ [](status = "running" => ScopeIsUnclosedHeaders)
    /\ [][TerminatorOneLevelUp]_vars
    /\ [][StoredInInnermost]_vars

C15_Witness ==
    /\ status = "running"
    /\ Consumed = <<LineA, LineEnd, LineA, LineA, LineKV>>
    /\ Unclosed = <<3, 4>>
    /\ stack = <<[key |-> KeyA, idx |-> 2], [key |-> KeyA, idx |-> 0]>>

\* the lines captured so far in the open container
Captured(tree) == GetAt(tree, stack).dict[KeyCoord].dict[KeyUnderscore1].list

\* a step inside coordinate capture, on the line the capture holds
CaptureEndsOnExactEnd ==
    (status = "running" /\ mode = "coord") =>
        IF Lower(input_list[pos]) = StrEnd
        THEN /\ mode' = "update"
             /\ status' = "running"
             /\ ret' = ret
             /\ stack' = stack
        ELSE /\ Captured(ret') = Append(Captured(ret), PyStr(input_list[pos]))
             /\ SameExceptAt(ret, ret', stack)
             /\ DOMAIN GetAt(ret', stack).dict = DOMAIN container.dict
             /\ \A k \in DOMAIN container.dict \ {KeyCoord} :
                    GetAt(ret', stack).dict[k] = container.dict[k]
             /\ stack' = stack
             /\ mode' = "coord"
             /\ \/ pos < Len(input_list) /\ pos' = pos + 1 /\ status' = "running"
                \/ pos = Len(input_list) /\ pos' = pos /\ status' = "StopIteration"

\* C16: inside coordinate capture only a line that case-insensitively equals
\* '&end' ends the capture; every other line, one that begins with '&end' or
\* a header included, is appended verbatim to coord/_1, opens and closes no
\* block, and the capture goes on until an exact '&end' or the end of the
\* input.
C16_CaptureEndsOnExactEnd == [][CaptureEndsOnExactEnd]_vars

C16_Witness ==
    /\ Returned
    /\ input_list = <<LineCoord, LineArgs, LineEndArgs, LineEnd>>
    /\ ret = PyDict(KeyCoord :> PyDict(KeyUnderscore1 :>
                 PyList(<<PyStr(LineArgs), PyStr(LineEndArgs)>>)))

\* a raw line of whitespace only
IsBlank(line) == \A i \in 1..Len(line) : line[i] \in Whitespace

\* how many of the first i lines of the file f are not a bare newline
KeptUpTo(f, i) == Cardinality({j \in 1..i : f[j] # <<"\n">>})

\* reading the file: a whitespace-only line that is not a bare newline gives
\* an empty string, at its place among the lines read
BlankLineEmitted ==
    status = "open" =>
        /\ Len(input_list') = KeptUpTo(input_list, Len(input_list))
        /\ \A i \in 1..Len(input_list) :
               (IsBlank(input_list[i]) /\ input_list[i] # <<"\n">>) =>
                   input_list'[KeptUpTo(input_list, i)] = <<>>

\* an empty string read outside coordinate capture raises and stores nothing
EmptyItemRaises ==
    (HasItem /\ item = <<>>) =>
        /\ status' = "IndexError"
        /\ pos' = pos + 1
        /\ ret' = ret
        /\ stack' = stack

\* C17: a whitespace-only line that is not a bare newline is emitted by the
\* sanitizer as an empty string; when recursive_update reads an empty string
\* outside coordinate capture the parse ends with the IndexError of item[0]:
\* the line is neither skipped nor stored, and nothing follows the error, so
\* no tree is returned.
C17_BlankLineRaises ==
    /\ [][BlankLineEmitted]_vars
    /\ [][EmptyItemRaises]_vars
    /\ [][status # "IndexError"]_vars

C17_Witness ==
    /\ status = "IndexError"
    /\ input_list = <<LineA, LineEmpty>>
    /\ pos = 2
    /\ ret = PyDict(KeyA :> EmptyDict)

\* the line read by a step outside coordinate capture begins with '&end',
\* whatever its case
BeginsWithEnd == Lower(Prefix(item, 4)) = StrEnd

\* the step closes the current block (the parse, at the top level) and
\* stores nothing
ClosesBlock ==
    /\ ret' = ret
    /\ IF stack = <<>> THEN Returned'
       ELSE status' = "running" /\ stack' = SubSeq(stack, 1, Len(stack) - 1)

\* the step opens a block in the current container: a block that becomes
\* the open one, or the coordinate block
OpensBlock ==
    \/ /\ Len(stack') = Len(stack) + 1
       /\ SubSeq(stack', 1, Len(stack)) = stack
       /\ GetAt(ret', stack') = EmptyDict
    \/ /\ mode' = "coord"
       /\ stack' = stack
       /\ HasKey(GetAt(ret', stack), KeyCoord)
       /\ GetAt(ret', stack).dict[KeyCoord] = PyDict(KeyUnderscore1 :> PyList(<<>>))

\* a step that reads a line outside coordinate capture
ReadsLine == HasItem /\ item # <<>> /\ pos' > pos

\* a line is a terminator iff it begins with '&end'
TerminatorIffBeginsWithEnd ==
    ReadsLine =>
        IF BeginsWithEnd THEN ClosesBlock
        ELSE ~Returned' /\ Len(stack') >= Len(stack)

\* C18 as stated: outside coordinate capture a line is a terminator iff its
\* first four characters are '&end' in any case: it closes the current block
\* and is not stored; every other line that starts with '&' opens a block.
C18_EveryOtherAmpersandOpens ==
    /\ [][TerminatorIffBeginsWithEnd]_vars
    /\ [][(ReadsLine /\ item[1] = "&" /\ ~BeginsWithEnd) => OpensBlock]_vars

\* C18 amended: ... every other line that starts with '&' opens a block,
\* but for a '&coord' line that is the last line of the input, which raises
\* StopIteration and opens nothing.
C18_OtherAmpersandOpensOrRaises ==
    /\ [][TerminatorIffBeginsWithEnd]_vars
    /\ [][(ReadsLine /\ item[1] = "&" /\ ~BeginsWithEnd) =>
            IF Lower(item) = StrCoordHeader /\ pos + 1 = Len(input_list)
            THEN status' = "StopIteration" /\ ret' = ret /\ stack' = stack
            ELSE OpensBlock]_vars

C18_Witness ==
    /\ status = "running"
    /\ Consumed = <<LineArgs, LineArgs, LineEndArgs>>
    /\ Len(stack) = 1
    /\ ret = PyDict(KeyAXy :> PyDict(KeyAXy :> EmptyDict))

\* the keys of the open container whose entry a step adds or changes
Touched ==
    {k \in DOMAIN GetAt(ret', stack).dict :
        k \notin DOMAIN container.dict
        \/ GetAt(ret', stack).dict[k] # container.dict[k]}

\* a step changes the tree in the innermost open container only, and there
\* at most one entry; no entry is removed
OnlyInnermostChanges ==
    status = "running" =>
        /\ SameExceptAt(ret, ret', stack)
        /\ DOMAIN container.dict \subseteq DOMAIN GetAt(ret', stack).dict
        /\ Cardinality(Touched) <= 1

\* what a step may do to an entry old of the open container: the blocks that
\* were closed in it stay as they are (promoted to the first element of a
\* list, or kept in the list a block is appended to), or the entry as a
\* whole is replaced by a scalar or by a new coordinate block, or it is the
\* coordinate block being captured
EntryKeptOrReplaced(old, new) ==
    \/ new = old
    \/ ~IsList(old) /\ new = PyList(<<old, EmptyDict>>)
    \/ IsList(old) /\ new = PyList(Append(old.list, EmptyDict))
    \/ IsInt(new) \/ IsFloat(new) \/ IsStr(new)
    \/ new = PyDict(KeyUnderscore1 :> PyList(<<>>))
    \/ /\ mode = "coord"
       /\ new = PyDict(KeyUnderscore1 :>
                    PyList(Append(old.dict[KeyUnderscore1].list, PyStr(input_list[pos]))))

ClosedBlocksKept ==
    status = "running" =>
        \A k \in DOMAIN container.dict :
            EntryKeptOrReplaced(container.dict[k], GetAt(ret', stack).dict[k])

\* a header whose key the open container already has: the old value is the
\* first element of the list, unchanged, or the list grows by one block
PromotionKeepsOld ==
    (/\ HasItem /\ item # <<>> /\ item[1] = "&" /\ ~BeginsWithEnd
     /\ Lower(item) # StrCoordHeader
     /\ pos' = pos + 1
     /\ HasKey(container, header_key(item))) =>
        LET old == container.dict[header_key(item)]
            new == GetAt(ret', stack).dict[header_key(item)]
        IN  /\ IsList(new)
            /\ IF IsList(old) THEN SubSeq(new.list, 1, Len(old.list)) = old.list
               ELSE new.list[1] = old
            /\ new.list[Len(new.list)] = EmptyDict

\* C19: a step changes only the innermost open container, by adding or
\* replacing one entry or by appending to one list; a block closed by its
\* terminator is not modified by a later line; on promotion the old value
\* is the first element of the list, unchanged.
C19_OnlyOpenPathMutated ==
    /\ [][OnlyInnermostChanges]_vars
    /\ [][ClosedBlocksKept]_vars
    /\ [][PromotionKeepsOld]_vars

C19_Witness ==
    /\ status = "running"
    /\ Consumed = <<LineA, LineKV, LineEnd, LineA>>
    /\ stack = <<[key |-> KeyA, idx |-> 2]>>
    /\ ret = PyDict(KeyA :> PyList(<<PyDict(KeyA :> PyInt(1)), EmptyDict>>))

IsNotTabOrNewline(c) == c \notin {"\t", "\n"}

\* out is what is left of the raw line once its newline and its tabs are
\* deleted and the spaces at both ends are dropped
IsCleaned(raw, out) ==
    LET t == SelectSeq(raw, IsNotTabOrNewline)
    IN  \E a \in 1..(Len(t) + 1) : \E b \in 0..Len(t) :
            /\ out = SubSeq(t, a, b)
            /\ \A j \in 1..Len(t) : (j < a \/ j > b) => t[j] = " "

\* reading the file
SanitizerStep ==
    status = "open" =>
        /\ Len(input_list') = KeptUpTo(input_list, Len(input_list))
        /\ \A i \in 1..Len(input_list) :
               input_list[i] # <<"\n">> =>
                   /\ IsCleaned(input_list[i], input_list'[KeptUpTo(input_list, i)])
                   /\ IsSanitized(input_list'[KeptUpTo(input_list, i)])

\* C20: reading the file drops the lines equal to a bare newline and emits
\* every other line, in order, one output per input; an emitted line has no
\* tab (tabs are deleted, no space takes their place), no trailing
\* whitespace and no leading space.
C20_LineSanitizer == [][SanitizerStep]_vars

C20_Witness ==
    /\ status = "running"
    /\ input_list = <<<<"A"," ","1">>, <<"x","x">>, <<"A"," ","1">>>>

\* the place in input_list of the line the next step handles: the line the
\* loop of recursive_update takes from input_gen, or the line the loop of
\* parse_coord_block holds
Cursor == IF mode = "coord" THEN pos ELSE pos + 1

\* a step of the running parse handles the line at the cursor and moves the
\* cursor to the line after it: no line is skipped, none is handled twice,
\* none is read again after a block returns; what is handled by the capture
\* is not handled by recursive_update
OneLinePerStep ==
    status = "running" =>
        /\ input_list' = input_list
        /\ pos' >= pos
        /\ status' = "running" => Cursor' = Cursor + 1
        /\ status' # "running" =>
               \/ Cursor = Len(input_list) + 1 /\ Returned' /\ pos' = pos
               \/ Cursor <= Len(input_list) /\ Cursor' \in {Cursor, Cursor + 1}

\* no step is taken once read_input has returned or raised
NoStepAfterEnd == status = "running"

\* C21: for every finite line sequence the parse ends, with a tree or an
\* exception; the lines are consumed in input order from one cursor, each
\* at most once, by recursive_update or by the coordinate capture, and none
\* is read again after a block returns.
C21_SinglePassTermination ==
    /\ <>(Returned \/ Raised)
    /\ [][OneLinePerStep]_vars
    /\ [][NoStepAfterEnd]_vars

C21_Witness ==
    /\ Returned
    /\ input_list = <<LineCoord, LineKV, LineEnd>>
    /\ pos = 3
    /\ ret = PyDict(KeyCoord :> PyDict(KeyUnderscore1 :> PyList(<<PyStr(LineKV)>>)))

====
